---- MODULE Spec2Model ----
(***************************************************************************)
(* Model of the CycloneDX npm BOM builder (src/src/builders.ts):           *)
(*   - BomBuilder.makeComponent      the omission policy, the distribution *)
(*                                   reference and its hash, the bom-ref,  *)
(*                                   the properties                        *)
(*   - BomBuilder.gatherDependencies the walk over the raw npm-ls tree     *)
(*   - TreeBuilder.fromPaths         nestPT / renderPR, the path trie      *)
(*   - BomBuilder.finalizePathProperties, nestComponents,                  *)
(*     adjustNestedBomRefs and the flatten loop                            *)
(* and of run (src/src/cli.ts): build, serialize, validate, write.         *)
(*                                                                         *)
(* Specifications:                                                         *)
(*   Spec        buildFromNpmLs on raw trees with a well-formed root       *)
(*   SpecRoots   buildFromNpmLs on raw trees with a malformed root         *)
(*   SpecDeep    buildFromNpmLs on raw trees three install levels deep     *)
(*   SpecTwice   buildFromNpmLs called twice on the same raw tree          *)
(*   SpecPolicy  one call of makeComponent                                 *)
(*   SpecPaths   one call of TreeBuilder.fromPaths                         *)
(*   SpecRun     one call of run                                           *)
(*                                                                         *)
(* JavaScript strings that are sliced or prefix-tested (install paths) are *)
(* sequences of one-character strings; strings that are only concatenated  *)
(* and compared (reference tokens) are TLA+ strings.  A JavaScript Map or  *)
(* Set is a sequence in insertion order.  JavaScript objects live in a     *)
(* heap (comps) and are referred to by their index in it.                  *)
(*                                                                         *)
(* The collaborators outside builders.ts appear by their result only: the  *)
(* field `buildable` of a raw record says whether the library's component  *)
(* builder returns a component for it, and group, name and version are the *)
(* values that component carries.                                          *)
(***************************************************************************)
EXTENDS Integers, Sequences, FiniteSets, TLC

VARIABLES
  omitDependencyTypes,  \* BomBuilder.omitDependencyTypes
  flattenComponents,    \* BomBuilder.flattenComponents
  packageLockOnly,      \* BomBuilder.packageLockOnly
  reproducible,         \* BomBuilder.reproducible
  pc,                   \* position of the running call
  rec,                  \* argument of a stand-alone makeComponent call
  res,                  \* what that call returned
  externalReference,    \* the reference that call added to component.externalReferences
  paths,                \* TreeBuilder.fromPaths: the Set of paths, in iteration order
  dirSeparator,         \* TreeBuilder.fromPaths: the separator
  tree,                 \* TreeBuilder.fromPaths: the PTree under construction
  data,                 \* buildFromNpmLs: the raw npm-ls tree
  allComponents,        \* buildFromNpmLs: Map<cPath, Component>
  comps,                \* heap of Models.Component objects
  stack,                \* call stack of gatherDependencies
  bomComponents,        \* bom.components
  calls,                \* log of the makeComponent calls of the walk
  processed,            \* log of the raw entries whose edge was recorded
  serialNumber,         \* bom.serialNumber
  timestamp,            \* bom.metadata.timestamp
  previous,             \* the BOM an earlier build of the same builder returned
  process,              \* run: what the process finds around it
  options,              \* run: the CommandOptions
  serialized,           \* run: the serialized BOM
  written,              \* run: what writeSync has written
  exitCode              \* run: the value returned, or that it threw

vars == <<omitDependencyTypes, flattenComponents, packageLockOnly, reproducible,
          pc, rec, res, externalReference, paths, dirSeparator, tree,
          data, allComponents, comps, stack, bomComponents, calls, processed,
          serialNumber, timestamp, previous,
          process, options, serialized, written, exitCode>>

optionVars == <<packageLockOnly, reproducible>>
bomVars == <<serialNumber, timestamp>>
cliVars == <<process, options, serialized, written, exitCode>>

policyVars == <<rec, res, externalReference>>
treeVars == <<paths, dirSeparator, tree>>
buildVars == <<data, allComponents, comps, stack, bomComponents, calls, processed>>

-----------------------------------------------------------------------------
(* Bounds of the model.                                                    *)

\* number of dependency entries of a raw tree (root excluded)
MaxEntries == 3
\* number of paths handed to a stand-alone TreeBuilder.fromPaths
MaxPaths == 4

-----------------------------------------------------------------------------
(* JavaScript values.                                                      *)

\* a property that may be absent, true or false
Tri == {"undef", "true", "false"}

\* a ?? b
Nullish(a, b) == IF a = "undef" THEN b ELSE a

\* A property whose text matters: t is its typeof, s the characters of a string.
Undefined == [t |-> "undefined", s |-> <<>>]

ANumber == [t |-> "number", s |-> <<>>]

Str(s) == [t |-> "string", s |-> s]

\* a ?? b on such properties
NullishValue(a, b) == IF a.t = "undefined" THEN b ELSE a

UpperCase == <<"A", "B", "C", "D", "E", "F", "G", "H", "I", "J", "K", "L", "M", "N", "O", "P", "Q", "R", "S", "T", "U", "V", "W", "X", "Y", "Z">>

LowerCase == <<"a", "b", "c", "d", "e", "f", "g", "h", "i", "j", "k", "l", "m", "n", "o", "p", "q", "r", "s", "t", "u", "v", "w", "x", "y", "z">>

Digits == <<"0", "1", "2", "3", "4", "5", "6", "7", "8", "9">>

\* the character as a case-insensitive regular expression compares it
LowerChar(c) ==
  IF \E i \in 1..Len(UpperCase) : UpperCase[i] = c
  THEN LowerCase[CHOOSE i \in 1..Len(UpperCase) : UpperCase[i] = c]
  ELSE c

Lower(s) == [i \in 1..Len(s) |-> LowerChar(s[i])]

Range(s) == {s[i] : i \in 1..Len(s)}

\* String.prototype.startsWith
StartsWith(b, a) == Len(a) <= Len(b) /\ SubSeq(b, 1, Len(a)) = a

\* String.prototype.slice(n)
SliceFrom(s, n) == SubSeq(s, n + 1, Len(s))

\* String.prototype.slice(undefined, -1)
DropLast(s) == SubSeq(s, 1, Len(s) - 1)

-----------------------------------------------------------------------------
(* JavaScript Map, as a sequence of [k, v] in insertion order.             *)

MapHas(m, k) == \E i \in 1..Len(m) : m[i].k = k

MapIndex(m, k) == CHOOSE i \in 1..Len(m) : m[i].k = k

MapKeys(m) == [i \in 1..Len(m) |-> m[i].k]

MapValues(m) == [i \in 1..Len(m) |-> m[i].v]

\* Map.prototype.set: an existing key keeps its place and gets the new value
MapSet(m, k, v) ==
  IF MapHas(m, k)
  THEN [m EXCEPT ![MapIndex(m, k)].v = v]
  ELSE Append(m, [k |-> k, v |-> v])

\* Map.prototype.delete
MapDelete(m, k) == SelectSeq(m, LAMBDA e : e.k # k)

\* Set.prototype.add on a Set kept as a sequence
SetAdd(s, x) == IF x \in Range(s) THEN s ELSE Append(s, x)

-----------------------------------------------------------------------------
(* BomBuilder.makeComponent: the omission policy.                          *)

IsOptional(d) == Nullish(d.optional, d._optional) = "true"

IsDev(d) == Nullish(d.dev, d._development) = "true"

IsDevOptional(d) == d.devOptional = "true"

\* a devOptional record skipped as soon as one of the two types is omitted
PolicySkipEither(d, omit) ==
  \/ IsOptional(d) /\ "optional" \in omit
  \/ IsDev(d) /\ "dev" \in omit
  \/ IsDevOptional(d) /\ ("dev" \in omit \/ "optional" \in omit)

\* the three early `return false` of makeComponent
PolicySkip(d, omit) ==
  \/ IsOptional(d) /\ "optional" \in omit
  \/ IsDev(d) /\ "dev" \in omit
  \/ IsDevOptional(d) /\ "dev" \in omit /\ "optional" \in omit

\* makeComponent without its omission policy
MakeComponentNoPolicy(d, omit) ==
  IF d.isNull THEN "throws"
  ELSE IF ~packageLockOnly /\ d.pathType # "string" THEN "throws"
  ELSE IF ~d.buildable THEN "broken"
  ELSE "ok"

\* What makeComponent returns: "skip" is false, "broken" is undefined (the
\* component builder of the library declined), "ok" is a component.  It
\* "throws" a TypeError when it reads a property of null, and when
\* enhancedPackageData hands a path that is no string to path.isAbsolute.
MakeComponent(d, omit) ==
  IF d.isNull THEN "throws"
  ELSE IF PolicySkip(d, omit) THEN "skip"
  ELSE IF ~packageLockOnly /\ d.pathType # "string" THEN "throws"
  ELSE IF ~d.buildable THEN "broken"
  ELSE "ok"

\* component.bomRef.value as makeComponent sets it
BomRefOf(d) ==
  IF d.idIsString /\ d._id # ""
  THEN d._id
  ELSE (IF d.group # "" THEN d.group ELSE "-") \o "/" \o d.name \o "@"
         \o (IF d.version # "" THEN d.version ELSE "-")

-----------------------------------------------------------------------------
(* BomBuilder.makeComponent: the distribution reference and its hash.      *)

\* the texts of the patterns
FILE_ == <<"f", "i", "l", "e", ":">>
IGNORE_ == <<"i", "g", "n", "o", "r", "e", ":">>
SHA512_ == <<"s", "h", "a", "5", "1", "2", "-">>
SHA1_ == <<"s", "h", "a", "1", "-">>
SHA256_ == <<"s", "h", "a", "2", "5", "6", "-">>
SHA384_ == <<"s", "h", "a", "3", "8", "4", "-">>

\* the pattern without its `ignore` alternative
IgnoreFileOnly(s) == StartsWith(Lower(s), FILE_)

\* BomBuilder.resolvedRE_ignore, /^(?:ignore|file):/i, tested on s
ResolvedRE_ignore(s) ==
  \/ StartsWith(Lower(s), IGNORE_)
  \/ StartsWith(Lower(s), FILE_)

\* BomBuilder.integrityRE, in the order of the Map: /^<prefix>([a-z0-9+/]{chars}<padding>)$/i
IntegrityRE ==
  << [alg |-> "SHA-512", prefix |-> SHA512_, chars |-> 86, padding |-> <<"=", "=">>],
     [alg |-> "SHA-1", prefix |-> SHA1_, chars |-> 27, padding |-> <<"=">>],
     [alg |-> "SHA-256", prefix |-> SHA256_, chars |-> 43, padding |-> <<"=">>],
     [alg |-> "SHA-384", prefix |-> SHA384_, chars |-> 64, padding |-> <<>>] >>

\* a character of the class [a-z0-9+/] under the flag i
InClass(c) == LowerChar(c) \in Range(LowerCase) \cup Range(Digits) \cup {"+", "/"}

\* hashRE.exec(integrity) finds a match (an array of length 2)
Matches(re, s) ==
  LET n == Len(re.prefix)
  IN /\ Len(s) = n + re.chars + Len(re.padding)
     /\ Lower(SubSeq(s, 1, n)) = re.prefix
     /\ \A i \in (n + 1)..(n + re.chars) : InClass(s[i])
     /\ SubSeq(s, n + re.chars + 1, Len(s)) = re.padding

\* hashMatchBase64[1], the text of the capture group
Group1(re, s) == SubSeq(s, Len(re.prefix) + 1, Len(s))

\* the base64 alphabet; the value of a character is its position less one
Base64Alphabet == UpperCase \o LowerCase \o Digits \o <<"+", "/">>

Base64Value(c) == (CHOOSE i \in 1..Len(Base64Alphabet) : Base64Alphabet[i] = c) - 1

\* the bytes of base64 text without padding: three bytes per four characters,
\* the bits left over at the end dropped
RECURSIVE Base64Bytes(_)
Base64Bytes(b) ==
  IF Len(b) >= 4
  THEN LET n == Base64Value(b[1]) * 262144 + Base64Value(b[2]) * 4096
                  + Base64Value(b[3]) * 64 + Base64Value(b[4])
       IN <<n \div 65536, (n \div 256) % 256, n % 256>> \o Base64Bytes(SubSeq(b, 5, Len(b)))
  ELSE IF Len(b) = 3
  THEN LET n == Base64Value(b[1]) * 1024 + Base64Value(b[2]) * 16 + Base64Value(b[3]) \div 4
       IN <<n \div 256, n % 256>>
  ELSE IF Len(b) = 2
  THEN <<Base64Value(b[1]) * 4 + Base64Value(b[2]) \div 16>>
  ELSE <<>>

\* Buffer.from(s, 'base64'): the text up to the padding is decoded
BufferFromBase64(s) == Base64Bytes(SelectSeq(s, LAMBDA c : c # "="))

HexDigits == Digits \o <<"a", "b", "c", "d", "e", "f">>

\* the digits of the upper-case spelling
ToHexUpper(bytes) ==
  LET up == Digits \o <<"A", "B", "C", "D", "E", "F">>
  IN [i \in 1..(2 * Len(bytes)) |->
        IF i % 2 = 1 THEN up[(bytes[(i + 1) \div 2] \div 16) + 1]
        ELSE up[(bytes[i \div 2] % 16) + 1]]

\* buffer.toString('hex')
ToHex(bytes) ==
  [i \in 1..(2 * Len(bytes)) |->
     IF i % 2 = 1 THEN HexDigits[(bytes[(i + 1) \div 2] \div 16) + 1]
     ELSE HexDigits[(bytes[i \div 2] % 16) + 1]]

\* the loop `for (const [hashAlgorithm, hashRE] of this.integrityRE)` from the
\* i-th pattern on; hashes is the HashDictionary, a Map
RECURSIVE HashLoop(_, _, _)
HashLoop(i, integrity, hashes) ==
  IF i > Len(IntegrityRE) THEN hashes
  ELSE IF Matches(IntegrityRE[i], integrity)
       THEN MapSet(hashes, IntegrityRE[i].alg,
                   ToHex(BufferFromBase64(Group1(IntegrityRE[i], integrity))))
       ELSE HashLoop(i + 1, integrity, hashes)

\* no distribution reference was added
NoReference == [built |-> FALSE, url |-> <<>>, hashes |-> <<>>]

\* the ExternalReference of type distribution that makeComponent adds for d
ExternalReferenceOf(d) ==
  LET resolved == NullishValue(d.resolved, d._resolved)
      integrity == NullishValue(d.integrity, d._integrity)
  IN IF resolved.t = "string" /\ ~ResolvedRE_ignore(resolved.s)
     THEN [built |-> TRUE, url |-> resolved.s,
           hashes |-> IF integrity.t = "string"
                      THEN HashLoop(1, integrity.s, <<>>)
                      ELSE <<>>]
     ELSE NoReference

-----------------------------------------------------------------------------
(* Stand-alone calls of makeComponent.                                     *)

OmitSets == SUBSET {"dev", "optional", "peer"}

\* the value of `path` in a record without one (hasPath is FALSE there)
NoPath == <<>>

\* A raw record of the npm-ls tree, without its dependencies.  hasPath is
\* `typeof data.path === 'string'`, idIsString is `typeof data._id === 'string'`;
\* isNull tells null from the other values that are not objects.
Record(path, hasPath, f, buildable, pkg) ==
  [isObject |-> TRUE, isNull |-> FALSE,
   hasPath |-> hasPath, pathType |-> IF hasPath THEN "string" ELSE "undefined",
   path |-> path,
   resolved |-> Undefined, _resolved |-> Undefined,
   integrity |-> Undefined, _integrity |-> Undefined,
   optional |-> f.optional, _optional |-> f._optional,
   dev |-> f.dev, _development |-> f._development,
   devOptional |-> f.devOptional,
   extraneous |-> "undef", private |-> "undef",
   inBundle |-> "undef", _inBundle |-> "undef",
   buildable |-> buildable,
   idIsString |-> pkg.idIsString, _id |-> pkg._id,
   group |-> pkg.group, name |-> pkg.name, version |-> pkg.version]

\* record r as the entry `depName` of a dependencies map, with its own
\* dependencies (the entries of a raw tree are numbered, the root is 0)
Entry(r, depName, deps) ==
  [isObject |-> r.isObject, isNull |-> r.isNull,
   hasPath |-> r.hasPath, pathType |-> r.pathType, path |-> r.path,
   resolved |-> r.resolved, _resolved |-> r._resolved,
   integrity |-> r.integrity, _integrity |-> r._integrity,
   optional |-> r.optional, _optional |-> r._optional,
   dev |-> r.dev, _development |-> r._development,
   devOptional |-> r.devOptional,
   extraneous |-> r.extraneous, private |-> r.private,
   inBundle |-> r.inBundle, _inBundle |-> r._inBundle,
   buildable |-> r.buildable,
   idIsString |-> r.idIsString, _id |-> r._id,
   group |-> r.group, name |-> r.name, version |-> r.version,
   depName |-> depName, dependencies |-> deps]

Flags == [optional : Tri, _optional : Tri, dev : Tri, _development : Tri,
          devOptional : {"undef", "true"}]

NoFlags == [optional |-> "undef", _optional |-> "undef", dev |-> "undef",
            _development |-> "undef", devOptional |-> "undef"]

SomePkg == [idIsString |-> TRUE, _id |-> "x@1", group |-> "", name |-> "x", version |-> "1"]

NoRec == [isObject |-> FALSE]

IdleBuild ==
  /\ data = <<>>
  /\ allComponents = <<>>
  /\ comps = <<>>
  /\ stack = <<>>
  /\ bomComponents = <<>>
  /\ calls = <<>>
  /\ processed = <<>>

IdleTree == paths = <<>> /\ dirSeparator = "/" /\ tree = <<>>

\* no Bom object yet
IdleBom == serialNumber = "undefined" /\ timestamp = "undefined" /\ previous = <<>>

NoProcess == [manifest |-> FALSE]

NoOptions == [validate |-> FALSE]

IdleRun ==
  /\ process = NoProcess
  /\ options = NoOptions
  /\ serialized = "none"
  /\ written = <<>>
  /\ exitCode = <<>>

\* packageLockOnly at its default, and `reproducible` set: the Bom then
\* holds nothing but what the raw tree and the options fix
PlainOptions == packageLockOnly = FALSE /\ reproducible = TRUE

IdlePolicy == rec = NoRec /\ res = "none" /\ externalReference = NoReference

\* the values of `resolved` of the model
ResolvedMenu ==
  { Undefined, ANumber, Str(<<>>),
    Str(<<"h", "t", "t", "p", "s", ":", "/", "/", "r">>), Str(<<"f", "i", "l", "e", ":", "x">>), Str(<<"F", "I", "L", "E", ":", "x">>),
    Str(<<"i", "g", "n", "o", "r", "e", ":", "x">>), Str(<<"x", "f", "i", "l", "e", ":", "x">>), Str(<<" ", "f", "i", "l", "e", ":", "x">>), Str(<<"I", "g", "n", "o", "r", "e", ":">>) }

\* the values of the legacy `_resolved`
LegacyResolvedMenu == { Undefined, Str(<<"h", "t", "t", "p", "s", ":", "/", "/", "l">>), Str(<<"f", "i", "l", "e", ":", "l">>) }

\* n characters, the seed repeated
Cycle(seed, n) == [i \in 1..n |-> seed[((i - 1) % Len(seed)) + 1]]

\* The integrity strings of the model: a prefix, a payload of one of the
\* lengths of the patterns (or one character short), and a padding.
IntegrityStrings ==
  LET prefixes == { SHA512_, SHA1_, SHA256_, SHA384_,
                    <<"S", "H", "A", "5", "1", "2", "-">>, <<"m", "d", "5", "-">> }
      seeds == { <<"A">>, <<"z", "9", "+">>, <<"/", "Q", "w", "8", "f">>, <<"a", "*">> }
      lengths == { IntegrityRE[i].chars : i \in 1..Len(IntegrityRE) }
                   \cup { IntegrityRE[1].chars - 1 }
      paddings == { <<>>, <<"=">>, <<"=", "=">> }
  IN { Str(p \o Cycle(seed, n) \o pad) :
         p \in prefixes, seed \in seeds, n \in lengths, pad \in paddings }

IntegrityMenu == IntegrityStrings \cup { Undefined, ANumber }

\* a well-formed sha512 integrity string
SomeSha512 ==
  Str(SHA512_ \o Cycle(<<"/", "Q", "w", "8", "f">>, IntegrityRE[1].chars) \o <<"=", "=">>)

\* a well-formed sha1 integrity string
SomeSha1 == Str(SHA1_ \o Cycle(<<"k", "2">>, IntegrityRE[2].chars) \o <<"=">>)

\* record r with the properties the distribution reference is made from
WithSource(r, resolved, legacyResolved, integrity, legacyIntegrity) ==
  [r EXCEPT !.resolved = resolved, !._resolved = legacyResolved,
            !.integrity = integrity, !._integrity = legacyIntegrity]

\* the records of the stand-alone calls: every combination of the flags,
\* every source of a distribution reference, every integrity string
PolicyRecords ==
  { Record(<<"/", "p">>, TRUE, f, b, SomePkg) : f \in Flags, b \in BOOLEAN }
  \cup
  { WithSource(Record(<<"/", "p">>, TRUE, f, TRUE, SomePkg), r, lr, i, Undefined) :
      f \in {NoFlags, [NoFlags EXCEPT !.dev = "true"]},
      r \in ResolvedMenu, lr \in LegacyResolvedMenu, i \in {Undefined, SomeSha512} }
  \cup
  { WithSource(Record(<<"/", "p">>, TRUE, NoFlags, TRUE, SomePkg), r, Undefined, i, li) :
      r \in {Str(<<"h", "t", "t", "p", "s", ":", "/", "/", "r">>), Str(<<"f", "i", "l", "e", ":", "x">>)},
      i \in IntegrityMenu, li \in {Undefined, SomeSha1} }

InitPolicy ==
  /\ omitDependencyTypes \in OmitSets
  /\ flattenComponents = FALSE
  /\ pc = "makeComponent"
  /\ \E r \in PolicyRecords : rec = Entry(r, "d0", <<>>)
  /\ res = "none"
  /\ externalReference = NoReference
  /\ PlainOptions
  /\ IdleTree
  /\ IdleBuild
  /\ IdleBom
  /\ IdleRun

\* makeComponent(data) called on rec
Normalize ==
  /\ pc = "makeComponent"
  /\ res' = MakeComponent(rec, omitDependencyTypes)
  /\ externalReference' = IF res' = "ok" THEN ExternalReferenceOf(rec) ELSE NoReference
  /\ pc' = "returned"
  /\ UNCHANGED <<omitDependencyTypes, flattenComponents, optionVars, rec, treeVars,
                 buildVars, bomVars, previous, cliVars>>

NextPolicy == Normalize

SpecPolicy == InitPolicy /\ [][NextPolicy]_vars

\* C4: a record with devOptional = true and neither dev nor optional set is
\* kept unless the omission set holds both dev and optional: kept under
\* {dev} alone, kept under {optional} alone, skipped under both.
C4_DevOptionalOmission ==
  (pc = "returned" /\ IsDevOptional(rec) /\ ~IsDev(rec) /\ ~IsOptional(rec))
    => /\ omitDependencyTypes = {"dev"} => res # "skip"
       /\ omitDependencyTypes = {"optional"} => res # "skip"
       /\ {"dev", "optional"} \subseteq omitDependencyTypes => res = "skip"
       /\ ~({"dev", "optional"} \subseteq omitDependencyTypes) => res # "skip"

C4_Witness ==
  /\ pc = "returned" /\ IsDevOptional(rec) /\ ~IsDev(rec) /\ ~IsOptional(rec)
  /\ omitDependencyTypes = {"dev"}
  /\ res = "ok"

\* C5: a record flagged both dev and devOptional is kept when the omission
\* set is {dev} alone.
C5_DevAndDevOptionalKept ==
  (pc = "returned" /\ IsDev(rec) /\ IsDevOptional(rec) /\ ~IsOptional(rec)
     /\ omitDependencyTypes = {"dev"})
    => res # "skip"

\* what makeComponent reads as the record's resolved value
ResolvedValue(d) == NullishValue(d.resolved, d._resolved)

\* what makeComponent reads as the record's integrity string
IntegrityValue(d) == NullishValue(d.integrity, d._integrity)

\* C11: a normalized record whose resolved value begins with "file:" or
\* "ignore:" gets no distribution reference and no hash, whatever its
\* integrity string.
C11_IgnoredSources ==
  (/\ pc = "returned" /\ res = "ok"
   /\ ResolvedValue(rec).t = "string"
   /\ \/ StartsWith(ResolvedValue(rec).s, FILE_)
      \/ StartsWith(ResolvedValue(rec).s, IGNORE_))
    => ~externalReference.built /\ externalReference.hashes = <<>>

\* resolved is "file:x" and the integrity string is a well-formed sha512
C11_Witness ==
  /\ pc = "returned" /\ res = "ok"
  /\ StartsWith(rec.resolved.s, FILE_)
  /\ rec.integrity = SomeSha512
  /\ externalReference = NoReference

\* C12: a normalized record gets a distribution reference exactly when its
\* resolved value (the legacy _resolved when resolved is absent) is a
\* non-empty string that does not match the ignore pattern.
C12_ReferenceIffNonEmpty ==
  (pc = "returned" /\ res = "ok") =>
    (externalReference.built <=>
       /\ ResolvedValue(rec).t = "string"
       /\ ResolvedValue(rec).s # <<>>
       /\ ~ResolvedRE_ignore(ResolvedValue(rec).s))

\* s is `prefix` (in either case), n characters of the base64 alphabet and pad
Shaped(s, prefix, n, pad) ==
  /\ Len(s) = Len(prefix) + n + Len(pad)
  /\ Lower(SubSeq(s, 1, Len(prefix))) = prefix
  /\ \A i \in (Len(prefix) + 1)..(Len(prefix) + n) : s[i] \in Range(Base64Alphabet)
  /\ SubSeq(s, Len(prefix) + n + 1, Len(s)) = pad

\* the w bits of v, most significant first
BitsOf(v, w) == [i \in 1..w |-> (v \div (2 ^ (w - i))) % 2]

\* the bits that base64 text stands for, six per character
Base64Bits(b) ==
  [i \in 1..(6 * Len(b)) |-> BitsOf(Base64Value(b[((i - 1) \div 6) + 1]), 6)[((i - 1) % 6) + 1]]

\* the bits that lower-case hexadecimal text stands for, four per digit
HexBits(h) ==
  [i \in 1..(4 * Len(h)) |->
     BitsOf((CHOOSE k \in 1..16 : HexDigits[k] = h[((i - 1) \div 4) + 1]) - 1, 4)[((i - 1) % 4) + 1]]

\* hashes is the one hash alg, the lower-case hexadecimal digits of the whole
\* bytes that the n base64 characters after the prefix of s stand for
OneHash(hashes, alg, s, prefix, n) ==
  /\ Len(hashes) = 1
  /\ hashes[1].k = alg
  /\ Len(hashes[1].v) = 2 * ((6 * n) \div 8)
  /\ \A i \in 1..Len(hashes[1].v) : hashes[1].v[i] \in Range(HexDigits)
  /\ HexBits(hashes[1].v) =
       SubSeq(Base64Bits(SubSeq(s, Len(prefix) + 1, Len(prefix) + n)), 1, 4 * Len(hashes[1].v))

\* C13: when a distribution reference is built, an integrity string of the
\* shape sha512 (86 base64 characters and "=="), sha1 (27 and "="), sha256
\* (43 and "=") or sha384 (64, no padding) gives exactly one hash, tagged
\* with that algorithm, whose content is the payload as lower-case
\* hexadecimal digits (128 of them for sha512); any other integrity value
\* gives no hash, and the reference is built all the same.
C13_HashDecoding ==
  (pc = "returned" /\ res = "ok" /\ ResolvedValue(rec).t = "string"
     /\ ~ResolvedRE_ignore(ResolvedValue(rec).s)) =>
    LET i == IntegrityValue(rec)
        h == externalReference.hashes
    IN /\ externalReference.built
       /\ Len(h) <= 1
       /\ IF i.t # "string" THEN h = <<>>
          ELSE IF Shaped(i.s, SHA512_, 86, <<"=", "=">>)
               THEN OneHash(h, "SHA-512", i.s, SHA512_, 86) /\ Len(h[1].v) = 128
          ELSE IF Shaped(i.s, SHA1_, 27, <<"=">>) THEN OneHash(h, "SHA-1", i.s, SHA1_, 27)
          ELSE IF Shaped(i.s, SHA256_, 43, <<"=">>) THEN OneHash(h, "SHA-256", i.s, SHA256_, 43)
          ELSE IF Shaped(i.s, SHA384_, 64, <<>>) THEN OneHash(h, "SHA-384", i.s, SHA384_, 64)
          ELSE h = <<>>

\* a sha512 string in upper-case spelling was decoded to 128 digits, letters among them
C13_Witness ==
  /\ pc = "returned" /\ externalReference.built
  /\ rec.integrity.t = "string"
  /\ SubSeq(rec.integrity.s, 1, 3) = <<"S", "H", "A">>
  /\ Len(externalReference.hashes) = 1
  /\ externalReference.hashes[1].k = "SHA-512"
  /\ Len(externalReference.hashes[1].v) = 128
  /\ "f" \in Range(externalReference.hashes[1].v)

-----------------------------------------------------------------------------
(* TreeBuilder: a PTree is a Map<string, PTree>, a sequence of [k, v].     *)

\* The inner loop of nestPT, `for (const [b, bTree] of tree)`, for the outer
\* key at index a, from index j on.  es is the entry list of the Map `tree`:
\* a deleted entry stays in the list, marked, and the iterators pass over it
\* (nothing is ever added to `tree` while the loops run).
RECURSIVE NestInner(_, _, _)
NestInner(es, a, j) ==
  IF j > Len(es) THEN es
  ELSE IF es[j].del \/ j = a THEN NestInner(es, a, j + 1)
  ELSE IF StartsWith(es[j].k, es[a].k)
       THEN NestInner(
              [es EXCEPT ![a].v = MapSet(@, SliceFrom(es[j].k, Len(es[a].k)), es[j].v),
                         ![j].del = TRUE],
              a, j + 1)
       ELSE NestInner(es, a, j + 1)

\* The outer loop of nestPT, `for (const a of tree.keys())`, from index i on.
RECURSIVE NestOuter(_, _)
NestOuter(es, i) ==
  IF i > Len(es) THEN es
  ELSE IF es[i].del THEN NestOuter(es, i + 1)
  ELSE NestOuter(NestInner(es, i, 1), i + 1)

\* the two nested loops of nestPT on one level
NestLevel(t) ==
  LET es == [i \in 1..Len(t) |-> [k |-> t[i].k, v |-> t[i].v, del |-> FALSE]]
      out == SelectSeq(NestOuter(es, 1), LAMBDA e : ~e.del)
  IN [i \in 1..Len(out) |-> [k |-> out[i].k, v |-> out[i].v]]

\* TreeBuilder.nestPT
RECURSIVE NestPT(_)
NestPT(t) ==
  IF Len(t) < 2 THEN t
  ELSE LET lvl == NestLevel(t)
       IN [i \in 1..Len(lvl) |-> [k |-> lvl[i].k, v |-> NestPT(lvl[i].v)]]

\* renderPR without the prefix: every key is set back as it was found, less
\* its last character
RECURSIVE RenderLoopNoPrefix(_, _, _)
RenderLoopNoPrefix(snap, cur, pref) ==
  IF snap = <<>> THEN cur
  ELSE LET p == Head(snap).k
           sub == RenderLoopNoPrefix(Head(snap).v, Head(snap).v, p)
       IN RenderLoopNoPrefix(Tail(snap), MapSet(MapDelete(cur, p), DropLast(p), sub), pref)

\* TreeBuilder.renderPR: snap is what is left of the snapshot
\* [...tree.entries()], cur the Map `tree` as the loop has changed it so far.
RECURSIVE RenderLoop(_, _, _)
RenderLoop(snap, cur, pref) ==
  IF snap = <<>> THEN cur
  ELSE LET p == Head(snap).k
           pFull == pref \o p
           sub == RenderLoop(Head(snap).v, Head(snap).v, pFull)
       IN RenderLoop(Tail(snap), MapSet(MapDelete(cur, p), DropLast(pFull), sub), pref)

RenderPR(t, pref) == RenderLoop(t, t, pref)

\* the Map that fromPaths starts from: one leaf per path, keyed path + separator
Leaves(ps, sep) ==
  LET Add[i \in 0..Len(ps)] ==
        IF i = 0 THEN <<>> ELSE MapSet(Add[i - 1], ps[i] \o <<sep>>, <<>>)
  IN Add[Len(ps)]

\* TreeBuilder.fromPaths
FromPaths(ps, sep) == RenderPR(NestPT(Leaves(ps, sep)), <<>>)

-----------------------------------------------------------------------------
(* Stand-alone calls of TreeBuilder.fromPaths.                             *)

PathUniverse ==
  { <<"/", "p">>,
    <<"/", "p", "/", "a">>,
    <<"/", "p", "/", "a", "/", "b">>,
    <<"/", "p", "/", "a", "/", "b", "/", "c">>,
    <<"/", "p", "/", "a", "b">> }

\* the iteration orders of the sets of at most n paths
PathOrders(n) ==
  UNION { { s \in [1..k -> PathUniverse] : \A i, j \in 1..k : i # j => s[i] # s[j] }
          : k \in 0..n }

InitPaths ==
  /\ omitDependencyTypes = {}
  /\ flattenComponents = FALSE
  /\ pc = "fromPaths"
  /\ paths \in PathOrders(MaxPaths)
  /\ dirSeparator \in {"/", "\\"}
  /\ tree = <<>>
  /\ PlainOptions
  /\ IdlePolicy
  /\ IdleBuild
  /\ IdleBom
  /\ IdleRun

\* fromPaths up to and including this.nestPT(tree)
NestStep ==
  /\ pc = "fromPaths"
  /\ tree' = NestPT(Leaves(paths, dirSeparator))
  /\ pc' = "nested"
  /\ UNCHANGED <<omitDependencyTypes, flattenComponents, optionVars, paths, dirSeparator,
                 policyVars, buildVars, bomVars, previous, cliVars>>

\* this.renderPR(tree, '') and the return
RenderStep ==
  /\ pc = "nested"
  /\ tree' = RenderPR(tree, <<>>)
  /\ pc' = "rendered"
  /\ UNCHANGED <<omitDependencyTypes, flattenComponents, optionVars, paths, dirSeparator,
                 policyVars, buildVars, bomVars, previous, cliVars>>

NextPaths == NestStep \/ RenderStep

SpecPaths == InitPaths /\ [][NextPaths]_vars

\* the [k, parent] pairs of a rendered PTree; a top-level key has parent <<"top">>
Top == <<"top">>

RECURSIVE Placement(_, _)
Placement(t, parent) ==
  UNION { {[k |-> t[i].k, parent |-> parent]} \cup Placement(t[i].v, t[i].k)
          : i \in 1..Len(t) }

\* Q + separator is a proper prefix of P + separator
Beneath(P, Q, sep) == P # Q /\ StartsWith(P \o <<sep>>, Q \o <<sep>>)

\* where P belongs: under the longest Q of S that it lies beneath
ExpectedParent(P, S, sep) ==
  LET above == {Q \in S : Beneath(P, Q, sep)}
  IN IF above = {} THEN Top
     ELSE CHOOSE Q \in above : \A R \in above : Len(R) <= Len(Q)

\* C3: after fromPaths every path P sits directly beneath the longest path Q
\* of the set with Q + separator a proper prefix of P + separator (top level
\* if there is none), in any iteration order of the set, so no two entries
\* of which one is such a prefix of the other are siblings.
C3_LongestPrefixParent ==
  pc = "rendered" =>
    Placement(tree, Top) =
      { [k |-> paths[i], parent |-> ExpectedParent(paths[i], Range(paths), dirSeparator)]
        : i \in 1..Len(paths) }

\* the keys of a PTree, every node's, in the order of a walk
RECURSIVE KeysOf(_)
KeysOf(t) ==
  IF t = <<>> THEN <<>>
  ELSE <<Head(t).k>> \o KeysOf(Head(t).v) \o KeysOf(Tail(t))

\* the paths a PTree stands for if every key is the segment below its parent:
\* a top-level key is a path, a nested one follows its parent's path and a
\* separator
RECURSIVE SegmentPaths(_, _, _)
SegmentPaths(t, above, sep) ==
  UNION { LET full == above \o t[i].k
          IN {full} \cup SegmentPaths(t[i].v, full \o <<sep>>, sep)
          : i \in 1..Len(t) }

\* C21 (as stated): after fromPaths, renderPR included, every node's key is
\* the path segment relative to its parent node, not the path relative to
\* the root, the trailing separator removed: joining the keys from the top
\* down to a node, with the separator, gives the node's path.
C21_KeysAreSegments ==
  pc = "rendered" => SegmentPaths(tree, <<>>, dirSeparator) = Range(paths)

\* C21 (amended): after fromPaths, renderPR included, every node's key is
\* the node's whole path as it was in the set of paths, the trailing
\* separator removed, at the top level and beneath any node alike; every
\* path of the set is the key of exactly one node.
C21_KeysAreFullPaths ==
  pc = "rendered" =>
    /\ Len(KeysOf(tree)) = Len(paths)
    /\ Range(KeysOf(tree)) = Range(paths)

\* a rendered tree with a node beneath a node that is itself beneath a node
C21_Witness ==
  /\ pc = "rendered"
  /\ \E x, y \in Placement(tree, Top) :
       x.parent = y.k /\ y.parent # Top /\ Len(x.k) > Len(y.k)

-----------------------------------------------------------------------------
(* BomBuilder.buildFromNpmLs: the heap of components.                      *)

RootId == 1

\* the members of PropertyNames that makeComponent uses
PropertyNames ==
  {"PackageInstallPath", "PackageDevelopment", "PackageExtraneous",
   "PackagePrivate", "PackageBundled"}

\* PropertyValueBool.True, as a property's value (a sequence, as a path is)
PropertyValueBoolTrue == <<"PropertyValueBool.True">>

\* the properties makeComponent adds to the component of record d;
\* normalizePackageData is taken to leave `private` as it finds it
PropertiesOf(d) ==
  (IF d.pathType = "string"
   THEN {[name |-> "PackageInstallPath", value |-> d.path]} ELSE {})
  \cup (IF IsDev(d) \/ IsDevOptional(d)
        THEN {[name |-> "PackageDevelopment", value |-> PropertyValueBoolTrue]} ELSE {})
  \cup (IF d.extraneous = "true"
        THEN {[name |-> "PackageExtraneous", value |-> PropertyValueBoolTrue]} ELSE {})
  \cup (IF d.private = "true"
        THEN {[name |-> "PackagePrivate", value |-> PropertyValueBoolTrue]} ELSE {})
  \cup (IF Nullish(d.inBundle, d._inBundle) = "true"
        THEN {[name |-> "PackageBundled", value |-> PropertyValueBoolTrue]} ELSE {})

\* the component makeComponent returns for record d, made from raw entry n
NewComponent(d, n) ==
  [node |-> n, path |-> d.path, dummy |-> FALSE,
   origRef |-> BomRefOf(d), bomRef |-> BomRefOf(d),
   properties |-> PropertiesOf(d),
   dependencies |-> {}, components |-> <<>>, nestedUnder |-> 0]

\* new DummyComponent(type, name), standing in for raw entry n
DummyComponent(name, d, n) ==
  [node |-> n, path |-> d.path, dummy |-> TRUE,
   origRef |-> "DummyComponent." \o name, bomRef |-> "DummyComponent." \o name,
   properties |-> {},
   dependencies |-> {}, components |-> <<>>, nestedUnder |-> 0]

\* allComponents.get(path): the component, or 0 for undefined
LookupMiss(m, path) == 0

Lookup(m, path) == IF MapHas(m, path) THEN m[MapIndex(m, path)].v ELSE 0

\* the recursive call at the end of the loop body of gatherDependencies, as
\* the frames it pushes: only a newly created component is descended into
ChildFramesIfNew(found, n, dep) ==
  IF found THEN <<>> ELSE <<[node |-> n, i |-> 1, comp |-> dep]>>

\* the recursive call at the end of the loop body of gatherDependencies
ChildFrames(found, n, dep) == <<[node |-> n, i |-> 1, comp |-> dep]>>

\* the edge recorded only for a component that was just created
AddEdgeIfNew(cs, from, to, found) ==
  IF found THEN cs ELSE [cs EXCEPT ![from].dependencies = @ \cup {to}]

\* the edge put into the dependencies of the component it should lead to
AddEdgeToItself(cs, from, to, found) == [cs EXCEPT ![to].dependencies = @ \cup {to}]

\* directDepRefs.add(dep.bomRef), directDepRefs being the edge set of `from`
AddEdge(cs, from, to, found) == [cs EXCEPT ![from].dependencies = @ \cup {to}]

\* a frame whose for-loop has run out returns to its caller
RECURSIVE Unwind(_, _)
Unwind(st, d) ==
  IF st = <<>> THEN st
  ELSE LET f == st[Len(st)]
       IN IF f.i > Len(d[f.node].dependencies)
          THEN Unwind(SubSeq(st, 1, Len(st) - 1), d)
          ELSE st

\* the first lines of buildFromNpmLs: the root component and the Map; an
\* exception of makeComponent leaves buildFromNpmLs
BuildStart ==
  /\ pc = "buildFromNpmLs"
  /\ LET made == MakeComponent(data[0], omitDependencyTypes)
         root == IF made = "ok"
                 THEN NewComponent(data[0], 0)
                 ELSE DummyComponent("RootComponent", data[0], 0)
         st == Unwind(<<[node |-> 0, i |-> 1, comp |-> RootId]>>, data)
     IN IF made = "throws"
        THEN /\ pc' = "thrown"
             /\ UNCHANGED <<comps, allComponents, calls, stack>>
        ELSE /\ comps' = <<root>>
             /\ allComponents' = <<[k |-> data[0].path, v |-> RootId]>>
             /\ calls' = <<[node |-> 0, path |-> data[0].path, result |-> made]>>
             /\ stack' = st
             /\ pc' = IF st = <<>> THEN "gathered" ELSE "gatherDependencies"
  /\ UNCHANGED <<omitDependencyTypes, flattenComponents, optionVars, policyVars, treeVars,
                 data, bomComponents, processed, bomVars, previous, cliVars>>

\* the loop body of gatherDependencies from `allComponents.get` on, for the
\* entry n (record d) of the frame f; next is the stack with f advanced
GatherEntry(f, n, d, next) ==
  \E found \in {Lookup(allComponents, d.path)} :
  \E made \in {IF found = 0 THEN MakeComponent(d, omitDependencyTypes) ELSE "none"} :
    IF made = "skip"
    THEN /\ stack' = Unwind(next, data)
         /\ calls' = Append(calls, [node |-> n, path |-> d.path, result |-> made])
         /\ UNCHANGED <<allComponents, comps, processed>>
    ELSE \E dep \in {IF found # 0 THEN found ELSE Len(comps) + 1} :
         \E heap \in {IF found # 0 THEN comps
                      ELSE IF made = "ok"
                      THEN Append(comps, NewComponent(d, n))
                      ELSE Append(comps, DummyComponent(
                             "InterferedDependency." \o d.depName, d, n))} :
           /\ allComponents' =
                IF found # 0 THEN allComponents ELSE MapSet(allComponents, d.path, dep)
           /\ comps' = AddEdge(heap, f.comp, dep, found # 0)
           /\ calls' = IF found # 0 THEN calls
                       ELSE Append(calls, [node |-> n, path |-> d.path, result |-> made])
           /\ processed' = Append(processed, [node |-> n, parent |-> f.node,
                                              reused |-> found # 0])
           /\ stack' = Unwind(next \o ChildFrames(found # 0, n, dep), data)

\* one iteration of the for-loop of gatherDependencies, in the innermost call
GatherStep ==
  /\ pc = "gatherDependencies"
  /\ \E f \in {stack[Len(stack)]} :
     \E n \in {data[f.node].dependencies[f.i]} :
     \E d \in {data[n]} :
     \E next \in {[stack EXCEPT ![Len(stack)].i = f.i + 1]} :
       IF ~d.isObject \/ ~d.hasPath
       THEN /\ stack' = Unwind(next, data)
            /\ UNCHANGED <<allComponents, comps, calls, processed>>
       ELSE GatherEntry(f, n, d, next)
  /\ pc' = IF stack' = <<>> THEN "gathered" ELSE pc
  /\ UNCHANGED <<omitDependencyTypes, flattenComponents, optionVars, policyVars, treeVars,
                 data, bomComponents, bomVars, previous, cliVars>>

-----------------------------------------------------------------------------
(* BomBuilder.buildFromNpmLs: the assembly of the component forest.        *)

\* the filter of the Map handed to nestComponents left out
KeepRoot(m) == m

\* new Map(Array.from(allComponents.entries()).filter(([, c]) => c !== rootComponent))
WithoutRoot(m) == SelectSeq(m, LAMBDA e : e.v # RootId)

\* components.forEach(c => children.add(c))
RECURSIVE AddAll(_, _)
AddAll(children, cs) ==
  IF cs = <<>> THEN children ELSE AddAll(SetAdd(children, Head(cs)), Tail(cs))

\* nestComponents leaving out what lies beneath a path without a component
RECURSIVE NestLoopNoSplice(_, _, _, _)
NestLoopNoSplice(m, t, i, acc) ==
  IF i > Len(t) THEN acc
  ELSE LET sub == NestLoopNoSplice(m, t[i].v, 1, [children |-> <<>>, assign |-> <<>>])
           component == Lookup(m, t[i].k)
       IN IF component = 0
          THEN NestLoopNoSplice(m, t, i + 1, acc)
          ELSE NestLoopNoSplice(m, t, i + 1,
                 [children |-> SetAdd(acc.children, component),
                  assign |-> acc.assign \o sub.assign
                               \o <<[c |-> component, components |-> sub.children]>>])

\* BomBuilder.nestComponents, the for-loop from entry i of the PTree t on.
\* acc.children is the repository `children`; acc.assign lists, in order, the
\* assignments `component.components = components` made so far.
RECURSIVE NestLoop(_, _, _, _)
NestLoop(m, t, i, acc) ==
  IF i > Len(t) THEN acc
  ELSE LET sub == NestLoop(m, t[i].v, 1, [children |-> <<>>, assign |-> <<>>])
           component == Lookup(m, t[i].k)
       IN IF component = 0
          THEN NestLoop(m, t, i + 1,
                 [children |-> AddAll(acc.children, sub.children),
                  assign |-> acc.assign \o sub.assign])
          ELSE NestLoop(m, t, i + 1,
                 [children |-> SetAdd(acc.children, component),
                  assign |-> acc.assign \o sub.assign
                               \o <<[c |-> component, components |-> sub.children]>>])

NestComponents(m, t) == NestLoop(m, t, 1, [children |-> <<>>, assign |-> <<>>])

\* the assignments `component.components = components`, applied to the heap
RECURSIVE Assign(_, _)
Assign(cs, as) ==
  IF as = <<>> THEN cs
  ELSE Assign([cs EXCEPT ![Head(as).c].components = Head(as).components], Tail(as))

RECURSIVE AdjustEach(_, _, _)
RECURSIVE AdjustNestedBomRefs(_, _, _)

\* the reference token left as it is, the children still visited
AdjustNoPrefix(cs, c, pref) == AdjustEach(cs, cs[c].components, pref)

\* the children prefixed with the token the component was given at
\* normalization, not with the one it has now
AdjustParentOnly(cs, c, pref) ==
  LET cs1 == [cs EXCEPT ![c].bomRef = pref \o @]
      fill == cs1[c].origRef \o "|"
  IN AdjustEach(cs1, cs1[c].components, fill)

\* BomBuilder.adjustNestedBomRefs.  Every component of this model has a
\* bomRef value (makeComponent and DummyComponent set one), so the early
\* return on an undefined value is never taken.
AdjustNestedBomRefs(cs, c, pref) ==
  LET cs1 == [cs EXCEPT ![c].bomRef = pref \o @]
      fill == cs1[c].bomRef \o "|"
  IN AdjustEach(cs1, cs1[c].components, fill)

\* forEach(c => { this.adjustNestedBomRefs(c, pref) })
AdjustEach(cs, list, pref) ==
  IF list = <<>> THEN cs
  ELSE AdjustEach(AdjustNestedBomRefs(cs, Head(list), pref), Tail(list), pref)

\* the component that holds c in its components, 0 if none does
HolderOf(cs, c) ==
  IF \E h \in 1..Len(cs) : c \in Range(cs[h].components)
  THEN CHOOSE h \in 1..Len(cs) : c \in Range(cs[h].components)
  ELSE 0

\* data.path[0] === '/' ? '/' : '\\'
SeparatorOf(path) == IF path # <<>> /\ path[1] = "/" THEN "/" ELSE "\\"

\* the nested forest with each component's holder noted in nestedUnder
NoteHolders(cs) ==
  [c \in 1..Len(cs) |-> [cs[c] EXCEPT !.nestedUnder = HolderOf(cs, c)]]

\* the segments of an absolute path, from character i on; cur is the segment
\* being read
RECURSIVE SegmentsFrom(_, _, _, _)
SegmentsFrom(path, sep, i, cur) ==
  IF i > Len(path) THEN (IF cur = <<>> THEN <<>> ELSE <<cur>>)
  ELSE IF path[i] = sep
       THEN (IF cur = <<>> THEN <<>> ELSE <<cur>>) \o SegmentsFrom(path, sep, i + 1, <<>>)
       ELSE SegmentsFrom(path, sep, i + 1, Append(cur, path[i]))

RECURSIVE JoinWith(_, _)
JoinWith(segs, sep) ==
  IF segs = <<>> THEN <<>>
  ELSE IF Len(segs) = 1 THEN segs[1]
  ELSE segs[1] \o <<sep>> \o JoinWith(Tail(segs), sep)

\* path.posix.relative(from, to) and path.win32.relative(from, to) on two
\* absolute paths of one drive: the way up from `from` to the last directory
\* they share, then down to `to`; win32 compares without regard to case
Relative(from, to, sep) ==
  LET f == SegmentsFrom(from, sep, 1, <<>>)
      t == SegmentsFrom(to, sep, 1, <<>>)
      Same(i) == IF sep = "/" THEN f[i] = t[i] ELSE Lower(f[i]) = Lower(t[i])
      shared == {k \in 0..Len(f) : k <= Len(t) /\ \A i \in 1..k : Same(i)}
      k == CHOOSE m \in shared : \A o \in shared : o <= m
  IN JoinWith([i \in 1..(Len(f) - k) |-> <<".", ".">>] \o SubSeq(t, k + 1, Len(t)), sep)

\* String.prototype.replace with a string pattern: the first occurrence only
ReplaceFirst(s, a, b) ==
  IF a \in Range(s)
  THEN [s EXCEPT ![CHOOSE i \in 1..Len(s) : s[i] = a /\ \A j \in 1..(i - 1) : s[j] # a] = b]
  ELSE s

\* BomBuilder.finalizePathProperties on all the components of the Map
FinalizePathProperties(rootPathType, rootPath, cs) ==
  IF rootPathType # "string" \/ rootPath = <<>> THEN cs
  ELSE LET dirSep == IF rootPath[1] = "/" THEN "/" ELSE "\\"
           Other(ps) == {pr \in ps : pr.name # "PackageInstallPath"}
           Paths(ps) == {pr \in ps : pr.name = "PackageInstallPath" /\ pr.value # <<>>}
       IN [c \in 1..Len(cs) |->
             [cs[c] EXCEPT !.properties =
                Other(@) \cup
                { [name |-> pr.name,
                   value |-> ReplaceFirst(Relative(rootPath, pr.value, dirSep), dirSep, "/")]
                  : pr \in Paths(@) }]]

\* the random serial numbers and the readings of the clock
SerialNumbers == {"urn:uuid:1", "urn:uuid:2"}

Dates == {"date 1", "date 2"}

\* the serial number and the timestamp set whatever `reproducible` is
StampsAlways(repro) ==
  [serialNumber : SerialNumbers, timestamp : Dates]

\* `if (!this.reproducible) { ... }`: what bom.serialNumber and
\* bom.metadata.timestamp can be after it
Stamps(repro) ==
  IF ~repro
  THEN [serialNumber : SerialNumbers, timestamp : Dates]
  ELSE {[serialNumber |-> "undefined", timestamp |-> "undefined"]}

\* buildFromNpmLs from this.finalizePathProperties(...) to
\* rootComponent.components.clear(); `data.path[0]` throws a TypeError when
\* the root has no path
Assemble ==
  /\ pc = "gathered"
  /\ IF data[0].pathType = "undefined"
     THEN /\ pc' = "thrown"
          /\ UNCHANGED <<treeVars, bomComponents, comps, bomVars>>
     ELSE /\ \E ps \in {MapKeys(allComponents)}, sep \in {SeparatorOf(data[0].path)} :
             \E t \in {FromPaths(ps, sep)} :
             \E nested \in {NestComponents(WithoutRoot(allComponents), t)} :
             \E final \in {FinalizePathProperties(data[0].pathType, data[0].path, comps)} :
             \E placed \in {NoteHolders(Assign(final, nested.assign))} :
             \E adjusted \in {AdjustEach(placed, nested.children, "")} :
               /\ paths' = ps
               /\ dirSeparator' = sep
               /\ tree' = t
               /\ bomComponents' = nested.children
               /\ comps' = [adjusted EXCEPT ![RootId].components = <<>>]
          /\ \E stamp \in Stamps(reproducible) :
               /\ serialNumber' = stamp.serialNumber
               /\ timestamp' = stamp.timestamp
          /\ pc' = "assembled"
  /\ UNCHANGED <<omitDependencyTypes, flattenComponents, optionVars, policyVars,
                 data, allComponents, stack, calls, processed, previous, cliVars>>

\* the flatten loop without component.components.clear()
RECURSIVE FlattenKeepChildren(_, _, _)
FlattenKeepChildren(vals, cs, forest) ==
  IF vals = <<>> THEN [comps |-> cs, forest |-> forest]
  ELSE FlattenKeepChildren(Tail(vals), cs,
         IF Head(vals) # RootId THEN SetAdd(forest, Head(vals)) ELSE forest)

\* the flatten loop marking, as bundled, every component it takes out of
\* the components of another
RECURSIVE FlattenMarkNested(_, _, _)
FlattenMarkNested(vals, cs, forest) ==
  IF vals = <<>> THEN [comps |-> cs, forest |-> forest]
  ELSE FlattenMarkNested(Tail(vals),
         [cs EXCEPT ![Head(vals)].components = <<>>,
                    ![Head(vals)].properties =
                       IF cs[Head(vals)].nestedUnder # 0
                       THEN @ \cup {[name |-> "PackageBundled",
                                     value |-> PropertyValueBoolTrue]}
                       ELSE @],
         IF Head(vals) # RootId THEN SetAdd(forest, Head(vals)) ELSE forest)

\* the loop `for (const component of allComponents.values())` of flatten mode
RECURSIVE Flatten(_, _, _)
Flatten(vals, cs, forest) ==
  IF vals = <<>> THEN [comps |-> cs, forest |-> forest]
  ELSE Flatten(Tail(vals),
         [cs EXCEPT ![Head(vals)].components = <<>>],
         IF Head(vals) # RootId THEN SetAdd(forest, Head(vals)) ELSE forest)

\* the end of buildFromNpmLs: flatten mode, and the return
Finish ==
  /\ pc = "assembled"
  /\ LET flat == Flatten(MapValues(allComponents), comps, bomComponents)
     IN IF flattenComponents
        THEN comps' = flat.comps /\ bomComponents' = flat.forest
        ELSE UNCHANGED <<comps, bomComponents>>
  /\ pc' = "done"
  /\ UNCHANGED <<omitDependencyTypes, flattenComponents, optionVars, policyVars, treeVars,
                 data, allComponents, stack, calls, processed, bomVars, previous, cliVars>>

-----------------------------------------------------------------------------
(* The raw npm-ls trees of the model.                                      *)

RootPath == <<"/", "p">>
PathA == <<"/", "p", "/", "a">>
PathAB == <<"/", "p", "/", "a", "b">>
PathA_B == <<"/", "p", "/", "a", "/", "b">>

\* the package the root record describes: no usable _id, a scoped name
RootPkg == [idIsString |-> TRUE, _id |-> "", group |-> "@g", name |-> "r", version |-> ""]

DevFlag == [NoFlags EXCEPT !.dev = "true"]

PlainRoot == Record(RootPath, TRUE, NoFlags, TRUE, RootPkg)

\* the root as it should be, flagged dev, and one the component builder declines
RootMenu ==
  { PlainRoot,
    Record(RootPath, TRUE, DevFlag, TRUE, RootPkg),
    Record(RootPath, TRUE, NoFlags, FALSE, RootPkg) }

NoPathEntry == Record(NoPath, FALSE, NoFlags, TRUE, SomePkg)

NonObject == [NoPathEntry EXCEPT !.isObject = FALSE]

\* the dependency entries of the trees under a regular root: the same
\* package x@1 is installed at three paths, once flagged dev, once in a
\* state the component builder declines, and the root's path comes back
EntryMenu ==
  { Record(PathA, TRUE, NoFlags, TRUE, SomePkg),
    Record(PathA, TRUE, DevFlag, TRUE, SomePkg),
    Record(PathAB, TRUE, NoFlags, TRUE, SomePkg),
    Record(PathA_B, TRUE, NoFlags, TRUE, SomePkg),
    Record(PathA_B, TRUE, NoFlags, FALSE, SomePkg),
    Record(RootPath, TRUE, NoFlags, TRUE, RootPkg) }

\* the dependency entries of the trees with malformed entries, under any
\* root; only an object has dependencies of its own
OddMenu ==
  { Record(PathA, TRUE, NoFlags, TRUE, SomePkg), NoPathEntry, NonObject }

\* entry i hangs under the root or under entry i - 1
Shapes(n) == { sh \in [1..n -> 0..n] : \A i \in 1..n : sh[i] \in {0, i - 1} }

ChildrenOf(sh, p) ==
  LET ids == {i \in DOMAIN sh : sh[i] = p}
      Nth[k \in 1..Cardinality(ids)] ==
        CHOOSE i \in ids : Cardinality({j \in ids : j < i}) = k - 1
  IN [k \in 1..Cardinality(ids) |-> Nth[k]]

\* the dependencies maps of a tree of shape sh, by entry
DepsOf(sh) == [n \in 0..Len(sh) |-> ChildrenOf(sh, n)]

RawTree(root, items, deps) ==
  [n \in 0..Len(items) |->
     Entry(IF n = 0 THEN root ELSE items[n], "d" \o ToString(n), deps[n])]

\* nothing of a build exists before buildFromNpmLs runs
StartOfBuild ==
  /\ allComponents = <<>>
  /\ comps = <<>>
  /\ stack = <<>>
  /\ bomComponents = <<>>
  /\ calls = <<>>
  /\ processed = <<>>

Init ==
  /\ omitDependencyTypes \in {{}, {"dev"}}
  /\ flattenComponents \in BOOLEAN
  /\ pc = "buildFromNpmLs"
  /\ \E sh \in Shapes(MaxEntries) :
     \E deps \in {DepsOf(sh)} :
       \/ \E items \in [1..MaxEntries -> EntryMenu] :
            data = RawTree(PlainRoot, items, deps)
       \/ \E root \in RootMenu, items \in [1..MaxEntries -> OddMenu] :
            /\ \A i \in 1..MaxEntries : sh[i] # 0 => items[sh[i]].isObject
            /\ data = RawTree(root, items, deps)
  /\ PlainOptions
  /\ StartOfBuild
  /\ IdlePolicy
  /\ IdleTree
  /\ IdleBom
  /\ IdleRun

Next == BuildStart \/ GatherStep \/ Assemble \/ Finish

Spec == Init /\ [][Next]_vars

-----------------------------------------------------------------------------
(* Builds from raw trees whose root or entries are malformed.              *)

\* JSON null at the top level
NullRoot ==
  [Record(NoPath, FALSE, NoFlags, FALSE, RootPkg) EXCEPT !.isObject = FALSE, !.isNull = TRUE]

\* a JSON number or string at the top level: every property of it is undefined
PrimitiveRoot == [Record(NoPath, FALSE, NoFlags, FALSE, RootPkg) EXCEPT !.isObject = FALSE]

\* a root object without `path`
NoPathRoot == Record(NoPath, FALSE, NoFlags, TRUE, RootPkg)

\* `path: 5`, as the text that `5 + dirSeparator` makes of it
NumberPath == <<"5">>

NumberPathRoot(f) == [Record(NumberPath, FALSE, f, TRUE, RootPkg) EXCEPT !.pathType = "number"]

NumberPathEntry == [Record(NumberPath, FALSE, NoFlags, TRUE, SomePkg) EXCEPT !.pathType = "number"]

\* the root objects of these trees
ObjectRootMenu == { PlainRoot, NoPathRoot, NumberPathRoot(NoFlags), NumberPathRoot(DevFlag) }

\* the dependency entries of these trees
MalformedMenu ==
  { Record(PathA, TRUE, NoFlags, TRUE, SomePkg),
    Record(PathA_B, TRUE, NoFlags, FALSE, SomePkg),
    NoPathEntry, NonObject, NumberPathEntry }

InitRoots ==
  /\ omitDependencyTypes = {"dev"}
  /\ flattenComponents = FALSE
  /\ packageLockOnly \in BOOLEAN
  /\ reproducible = TRUE
  /\ pc = "buildFromNpmLs"
  /\ \/ \E root \in {NullRoot, PrimitiveRoot} :
          data = [n \in {0} |-> Entry(root, "d0", <<>>)]
     \/ \E sh \in Shapes(MaxEntries) :
        \E deps \in {DepsOf(sh)} :
        \E root \in ObjectRootMenu, items \in [1..MaxEntries -> MalformedMenu] :
          /\ \A i \in 1..MaxEntries : sh[i] # 0 => items[sh[i]].isObject
          /\ data = RawTree(root, items, deps)
  /\ StartOfBuild
  /\ IdlePolicy
  /\ IdleTree
  /\ IdleBom
  /\ IdleRun

SpecRoots == InitRoots /\ [][Next]_vars

\* C14: buildFromNpmLs throws, and returns no BOM, exactly when the top level
\* of the raw tree is not an object or its path is missing or not a string;
\* whatever else is malformed in the entries, it returns a BOM.
C14_FatalOnlyWithoutRootPath ==
  /\ pc = "thrown" =>
       ~data[0].isObject \/ data[0].pathType # "string"
  /\ pc = "done" =>
       data[0].isObject /\ data[0].pathType = "string"

-----------------------------------------------------------------------------
(* Two builds of one BomBuilder from the same raw tree.                    *)

\* What buildFromNpmLs returned: the root component, the forest in its
\* order, every component with its reference token, edges and children, and
\* the serial number and timestamp of the Bom.
Returned ==
  [root |-> comps[RootId], components |-> bomComponents, all |-> comps,
   byPath |-> allComponents,
   serialNumber |-> serialNumber, timestamp |-> timestamp]

\* buildFromNpmLs is called once more, with the same raw tree: nothing of the
\* first call but the returned Bom is left
Rebuild ==
  /\ pc = "done"
  /\ previous = <<>>
  /\ previous' = <<Returned>>
  /\ pc' = "buildFromNpmLs"
  /\ allComponents' = <<>>
  /\ comps' = <<>>
  /\ stack' = <<>>
  /\ bomComponents' = <<>>
  /\ calls' = <<>>
  /\ processed' = <<>>
  /\ paths' = <<>>
  /\ dirSeparator' = "/"
  /\ tree' = <<>>
  /\ serialNumber' = "undefined"
  /\ timestamp' = "undefined"
  /\ UNCHANGED <<omitDependencyTypes, flattenComponents, optionVars, policyVars, data, cliVars>>

\* the dependency entries of the trees built twice
TwiceMenu ==
  { Record(PathA, TRUE, NoFlags, TRUE, SomePkg),
    Record(PathAB, TRUE, NoFlags, TRUE, SomePkg),
    Record(PathA_B, TRUE, NoFlags, TRUE, SomePkg),
    Record(PathA_B, TRUE, NoFlags, FALSE, SomePkg) }

InitTwice ==
  /\ omitDependencyTypes = {}
  /\ flattenComponents \in BOOLEAN
  /\ packageLockOnly = FALSE
  /\ reproducible \in BOOLEAN
  /\ pc = "buildFromNpmLs"
  /\ \E sh \in Shapes(MaxEntries) :
     \E deps \in {DepsOf(sh)} :
     \E items \in [1..MaxEntries -> TwiceMenu] :
       data = RawTree(PlainRoot, items, deps)
  /\ StartOfBuild
  /\ IdlePolicy
  /\ IdleTree
  /\ IdleBom
  /\ IdleRun

NextTwice == BuildStart \/ GatherStep \/ Assemble \/ Finish \/ Rebuild

SpecTwice == InitTwice /\ [][NextTwice]_vars

-----------------------------------------------------------------------------
(* run (src/src/cli.ts): build, serialize, validate, write.                *)

ExitCode == [SUCCESS |-> 0, FAILURE |-> 1, INVALID |-> 2]

\* What run finds around it: the files of the project, whether building the
\* BOM throws, what the validator does with the serialized BOM, and whether
\* the output file can be opened.
Processes ==
  [manifest : BOOLEAN, shrinkwrap : BOOLEAN, packageLock : BOOLEAN, nodeModules : BOOLEAN,
   buildThrows : BOOLEAN,
   validation : {"null", "errors", "MissingOptionalDependencyError", "other error"},
   openThrows : BOOLEAN]

\* the CommandOptions that run reads; specVersion is whether
\* Spec.SpecVersionDict knows the version asked for
CommandOptions ==
  [packageLockOnly : BOOLEAN, specVersion : BOOLEAN, outputFormat : {"JSON", "XML"},
   validate : BOOLEAN, outputFile : {"-", "bom.out"}]

InitRun ==
  /\ omitDependencyTypes = {}
  /\ flattenComponents = FALSE
  /\ PlainOptions
  /\ pc = "run"
  /\ process \in Processes
  /\ options \in CommandOptions
  /\ (process.openThrows => options.outputFile # "-")
  /\ serialized = "none"
  /\ written = <<>>
  /\ exitCode = <<>>
  /\ IdlePolicy
  /\ IdleTree
  /\ IdleBuild
  /\ IdleBom

\* run up to the evidence of an installed project
RunStart ==
  /\ pc = "run"
  /\ pc' = IF ~process.manifest THEN "thrown"
           ELSE IF \/ process.shrinkwrap
                   \/ process.packageLock
                   \/ (~options.packageLockOnly /\ process.nodeModules)
           THEN "run: build"
           ELSE "thrown"
  /\ UNCHANGED <<omitDependencyTypes, flattenComponents, optionVars, policyVars, treeVars,
                 buildVars, bomVars, previous, process, options, serialized, written, exitCode>>

\* run from `new BomBuilder(...).buildFromProjectDir` to `serializer.serialize`
RunBuild ==
  /\ pc = "run: build"
  /\ IF process.buildThrows \/ ~options.specVersion
     THEN pc' = "thrown" /\ UNCHANGED serialized
     ELSE pc' = "run: validate" /\ serialized' = "BOM as " \o options.outputFormat
  /\ UNCHANGED <<omitDependencyTypes, flattenComponents, optionVars, policyVars, treeVars,
                 buildVars, bomVars, previous, process, options, written, exitCode>>

\* validation errors do not keep run from writing
AfterValidationLenient(validate, validation) ==
  IF ~validate THEN "write"
  ELSE IF validation = "other error" THEN "throw"
  ELSE "write"

\* `if (options.validate) { try { ... } catch (err) { ... } }`: how run goes on
AfterValidation(validate, validation) ==
  IF ~validate THEN "write"
  ELSE IF validation = "null" THEN "write"
  ELSE IF validation = "errors" THEN "return FAILURE"
  ELSE IF validation = "MissingOptionalDependencyError" THEN "write"
  ELSE "throw"

\* the validation of the serialized BOM
RunValidate ==
  /\ pc = "run: validate"
  /\ \E next \in {AfterValidation(options.validate, process.validation)} :
       /\ pc' = CASE next = "write" -> "run: write"
                  [] next = "return FAILURE" -> "returned"
                  [] next = "throw" -> "thrown"
       /\ exitCode' = IF next = "return FAILURE" THEN <<ExitCode.FAILURE>> ELSE exitCode
  /\ UNCHANGED <<omitDependencyTypes, flattenComponents, optionVars, policyVars, treeVars,
                 buildVars, bomVars, previous, process, options, serialized, written>>

\* writeSync(fd, serialized) and `return ExitCode.SUCCESS`
RunWrite ==
  /\ pc = "run: write"
  /\ IF options.outputFile # "-" /\ process.openThrows
     THEN pc' = "thrown" /\ UNCHANGED <<written, exitCode>>
     ELSE /\ written' = Append(written, [to |-> options.outputFile, text |-> serialized])
          /\ exitCode' = <<ExitCode.SUCCESS>>
          /\ pc' = "returned"
  /\ UNCHANGED <<omitDependencyTypes, flattenComponents, optionVars, policyVars, treeVars,
                 buildVars, bomVars, previous, process, options, serialized>>

NextRun == RunStart \/ RunBuild \/ RunValidate \/ RunWrite

SpecRun == InitRun /\ [][NextRun]_vars

\* C16: run writes only in the step that follows a validation that passed,
\* was disabled, or was skipped for a missing optional dependency; when
\* validation is enabled and the validator reports errors run returns
\* FAILURE (1) and nothing was written; when the validator throws anything
\* else run throws and nothing was written.
C16_WriteAfterValidation ==
  /\ [](written # <<>> =>
          \/ ~options.validate
          \/ process.validation \in {"null", "MissingOptionalDependencyError"})
  /\ []((pc \in {"returned", "thrown"} /\ serialized # "none"
           /\ options.validate /\ process.validation = "errors")
          => pc = "returned" /\ exitCode = <<1>> /\ written = <<>>)
  /\ []((pc \in {"returned", "thrown"} /\ serialized # "none"
           /\ options.validate /\ process.validation = "other error")
          => pc = "thrown" /\ exitCode = <<>> /\ written = <<>>)
  /\ [][written' # written => pc = "run: write" /\ Len(written') = 1]_vars

\* the validator reported errors: FAILURE, and nothing written
C16_Witness ==
  /\ pc = "returned"
  /\ options.validate
  /\ process.validation = "errors"
  /\ exitCode = <<ExitCode.FAILURE>>
  /\ written = <<>>

-----------------------------------------------------------------------------
(* Builds from raw trees whose install paths lie three levels deep.        *)

PathA_B_C == <<"/", "p", "/", "a", "/", "b", "/", "c">>

OtherPkg == [idIsString |-> TRUE, _id |-> "y@2", group |-> "", name |-> "y", version |-> "2"]

\* packages installed beneath one another, and one beside them; npm flags
\* two of them as bundled, one of these the way npm 6 does
DeepMenu ==
  { Record(PathA, TRUE, NoFlags, TRUE, SomePkg),
    Record(PathA_B, TRUE, NoFlags, TRUE, OtherPkg),
    [Record(PathA_B, TRUE, NoFlags, TRUE, OtherPkg) EXCEPT !.inBundle = "true"],
    Record(PathA_B_C, TRUE, NoFlags, TRUE, SomePkg),
    Record(PathA_B_C, TRUE, NoFlags, FALSE, SomePkg),
    [Record(PathAB, TRUE, NoFlags, TRUE, SomePkg) EXCEPT !._inBundle = "true"] }

InitDeep ==
  /\ omitDependencyTypes = {}
  /\ flattenComponents \in BOOLEAN
  /\ pc = "buildFromNpmLs"
  /\ \E sh \in Shapes(MaxEntries) :
     \E items \in [1..MaxEntries -> DeepMenu] :
       data = RawTree(PlainRoot, items, DepsOf(sh))
  /\ PlainOptions
  /\ StartOfBuild
  /\ IdlePolicy
  /\ IdleTree
  /\ IdleBom
  /\ IdleRun

SpecDeep == InitDeep /\ [][Next]_vars

\* the forest of the Bom is the nested one
Nested == pc = "assembled" \/ (pc = "done" /\ ~flattenComponents)

\* the components that hold c in their components
HoldersOf(c) == {h \in 1..Len(comps) : c \in Range(comps[h].components)}

\* C22: after nested assembly a component at the top of the forest has the
\* reference token it was given at normalization, and a component in the
\* components of another has that one's final token, then "|", then its own
\* original token; every component of the map but the root is in one of the
\* two places, so each token is its original one behind the chain of the
\* original tokens of its ancestors, each put in front once.
C22_AncestorChain ==
  Nested =>
    /\ \A c \in Range(bomComponents) : comps[c].bomRef = comps[c].origRef
    /\ \A h \in 1..Len(comps) : \A c \in Range(comps[h].components) :
         comps[c].bomRef = comps[h].bomRef \o "|" \o comps[c].origRef
    /\ \A c \in Range(MapValues(allComponents)) \ {RootId} :
         c \in Range(bomComponents) \/ HoldersOf(c) # {}

\* a component two levels down carries both ancestors' tokens
C22_Witness ==
  /\ Nested
  /\ \E g, h, c \in 1..Len(comps) :
       /\ g \in Range(bomComponents)
       /\ h \in Range(comps[g].components)
       /\ c \in Range(comps[h].components)
       /\ comps[c].bomRef =
            comps[g].origRef \o "|" \o comps[h].origRef \o "|" \o comps[c].origRef
       /\ comps[g].origRef # comps[h].origRef

\* component c has a property of that name
HasProperty(c, name) == \E pr \in comps[c].properties : pr.name = name

RECURSIVE ForestList(_, _)
ForestList(cs, list) ==
  IF list = <<>> THEN <<>>
  ELSE <<Head(list)>> \o ForestList(cs, cs[Head(list)].components)
         \o ForestList(cs, Tail(list))

\* the components nestComponents is given: those of the Map but the root
Nestable == Range(MapValues(allComponents)) \ {RootId}

\* C24: the nested forest holds every component of the Map but the root,
\* each once, and the root not at all; the component of a path of the trie
\* is in the components of the component of the path above it, and at the
\* top of the forest if the path above it has no component to nest (the
\* root's path) or if there is no path above it.
C24_EveryComponentOnce ==
  Nested =>
    /\ Range(ForestList(comps, bomComponents)) = Nestable
    /\ Len(ForestList(comps, bomComponents)) = Cardinality(Nestable)
    /\ \A x \in Placement(tree, Top) :
         LET c == Lookup(allComponents, x.k)
             above == IF x.parent = Top THEN 0 ELSE Lookup(allComponents, x.parent)
         IN c # RootId =>
              IF above \in Nestable
              THEN c \in Range(comps[above].components)
              ELSE c \in Range(bomComponents)

\* the root's path holds the whole trie, what lies beneath it went to the
\* top of the forest, and a component there has components of its own
C24_Witness ==
  /\ Nested
  /\ Len(tree) = 1 /\ tree[1].k = data[0].path /\ Len(tree[1].v) >= 2
  /\ Len(bomComponents) >= 2
  /\ \E c \in Range(bomComponents) : comps[c].components # <<>>

-----------------------------------------------------------------------------
(* Properties of the build.                                                *)

WalkOver == pc \in {"gathered", "assembled", "done"}

\* raw entry n is an object with a string path
WellFormed(n) == data[n].isObject /\ data[n].hasPath

\* the raw entries (the root is one) that carry install path p
Occurrences(p) == {n \in DOMAIN data : WellFormed(n) /\ data[n].path = p}

\* the walk recorded an edge to entry n and entered its dependencies
Handled(n) == n = 0 \/ \E i \in 1..Len(processed) : processed[i].node = n

\* the walk found the component of entry n in the Map
Reused(n) == \E i \in 1..Len(processed) : processed[i].node = n /\ processed[i].reused

\* the components made for install path p
MadeFor(p) == {c \in 1..Len(comps) : comps[c].path = p}

\* C1: the component map holds one component per install path: an entry,
\* once set (real component or placeholder), is never replaced or removed,
\* no two entries share a path, the component objects stay what they are,
\* and makeComponent is only ever called for a path that has no entry yet.
C1_OnePerPath ==
  [][ /\ \A i \in 1..Len(allComponents) :
           i <= Len(allComponents') /\ allComponents'[i] = allComponents[i]
      /\ \A i, j \in 1..Len(allComponents') :
           i # j => allComponents'[i].k # allComponents'[j].k
      /\ \A c \in 1..Len(comps) :
           /\ c <= Len(comps')
           /\ comps'[c].node = comps[c].node
           /\ comps'[c].dummy = comps[c].dummy
      /\ \A k \in (Len(calls) + 1)..Len(calls') :
           ~MapHas(allComponents, calls'[k].path)
    ]_vars

\* a later entry found the placeholder of its path and reused it
C1_Witness ==
  /\ pc = "done"
  /\ \E n \in DOMAIN data :
       /\ Reused(n)
       /\ comps[Lookup(allComponents, data[n].path)].dummy
       /\ data[n].buildable

\* entries full and bare are the only two occurrences of a path, full with
\* dependencies and bare without, and the walk handled both
TwoOccurrences(full, bare) ==
  /\ full # bare
  /\ WellFormed(full) /\ WellFormed(bare)
  /\ Occurrences(data[full].path) = {full, bare}
  /\ data[full].dependencies # <<>>
  /\ data[bare].dependencies = <<>>
  /\ Handled(full) /\ Handled(bare)

RECURSIVE ForestIds(_, _)
ForestIds(cs, list) ==
  UNION { {list[i]} \cup ForestIds(cs, cs[list[i]].components) : i \in 1..Len(list) }

\* C7: the root component is nowhere in the components forest, nested or
\* flattened, also when a dependency entry carries the root's install path.
C7_RootNotInForest ==
  pc \in {"assembled", "done"} => RootId \notin ForestIds(comps, bomComponents)

C7_Witness ==
  /\ pc = "done"
  /\ bomComponents # <<>>
  /\ \E n \in DOMAIN data : n # 0 /\ Handled(n) /\ data[n].path = data[0].path

\* C8: two components with the same initial reference token and different
\* install paths have different reference tokens after assembly.
C8_DistinctRefs ==
  pc = "done" =>
    \A c1, c2 \in 1..Len(comps) :
      (c1 # c2 /\ comps[c1].origRef = comps[c2].origRef /\ comps[c1].path # comps[c2].path)
        => comps[c1].bomRef # comps[c2].bomRef

\* C9: in flatten mode no component, the root included, keeps children, and
\* the forest is exactly the non-root components of the component map.
C9_FlattenedForest ==
  (pc = "done" /\ flattenComponents) =>
    /\ \A c \in 1..Len(comps) : comps[c].components = <<>>
    /\ Range(bomComponents) = Range(MapValues(allComponents)) \ {RootId}
    /\ Cardinality(Range(bomComponents)) = Len(bomComponents)

\* the nested forest had a component beneath another one
C9_Witness ==
  /\ pc = "done" /\ flattenComponents
  /\ \E c \in 1..Len(comps) : comps[c].nestedUnder # 0
  /\ Len(bomComponents) >= 2

\* C10: in flatten mode every component's final reference token is the token
\* it was given at normalization.
C10_NoPrefixInFlatten ==
  (pc = "done" /\ flattenComponents) =>
    \A c \in 1..Len(comps) : comps[c].bomRef = comps[c].origRef

\* C10, amended: flatten mode keeps the prefixes of the nested forest: a
\* component that was at the top of the nested forest (and the root) has its
\* original token, one that was nested has its holder's final token, "|" and
\* its original token.
C10_FlattenKeepsPrefix ==
  (pc = "done" /\ flattenComponents) =>
    \A c \in 1..Len(comps) :
      comps[c].bomRef =
        IF comps[c].nestedUnder = 0
        THEN comps[c].origRef
        ELSE comps[comps[c].nestedUnder].bomRef \o "|" \o comps[c].origRef

C10_Witness ==
  /\ pc = "done" /\ flattenComponents
  /\ \E c \in 1..Len(comps) :
       comps[c].nestedUnder # 0 /\ comps[c].bomRef # comps[c].origRef

\* the entry whose dependencies list entry n
ParentOf(n) == CHOOSE p \in DOMAIN data : n \in Range(data[p].dependencies)

\* makeComponent was called for entry n and returned false
SkippedCall(n) == \E i \in 1..Len(calls) : calls[i].node = n /\ calls[i].result = "skip"

\* the component that stands for entry n
ComponentOf(n) == Lookup(allComponents, data[n].path)

\* C17: an entry of a dependencies map that is not an object, has no string
\* path, or (its path not being in the component map) is excluded by the
\* omission policy adds no component and no edge and is not descended into:
\* the step that handles it changes neither the map nor any component and
\* opens no call for it, and no entry below an entry the walk did not
\* handle is ever normalized or handled.
C17_SkippedEntries ==
  /\ [][ pc = "gatherDependencies" =>
           LET f == stack[Len(stack)]
               n == data[f.node].dependencies[f.i]
               d == data[n]
           IN (\/ ~d.isObject
               \/ ~d.hasPath
               \/ (~MapHas(allComponents, d.path) /\ PolicySkip(d, omitDependencyTypes)))
              => /\ allComponents' = allComponents
                 /\ comps' = comps
                 /\ processed' = processed
                 /\ \A i \in 1..Len(stack') : stack'[i].node # n
       ]_vars
  /\ [](\A n \in DOMAIN data :
          (n # 0 /\ ~Handled(ParentOf(n))) =>
            /\ ~Handled(n)
            /\ \A i \in 1..Len(calls) : calls[i].node # n
            /\ \A c \in 1..Len(comps) : comps[c].node # n)

\* an entry with dependencies of its own was excluded by the policy
C17_Witness ==
  /\ pc = "done"
  /\ \E n \in DOMAIN data : SkippedCall(n) /\ data[n].dependencies # <<>> /\ ~Handled(n)

\* C18: every entry that the loop reaches and does not skip is handled: the
\* component of the entry that lists it has an edge to its component (new,
\* placeholder or found in the map), and the walk goes on with its own
\* dependencies, whose edges go to that same component.
C18_EdgeFromEveryParent ==
  /\ \A i \in 1..Len(processed) :
       ComponentOf(processed[i].node) \in comps[ComponentOf(processed[i].parent)].dependencies
  /\ WalkOver =>
       \A n \in DOMAIN data :
         (n # 0 /\ WellFormed(n) /\ Handled(ParentOf(n)) /\ ~SkippedCall(n)) => Handled(n)

\* a placeholder was made for one entry and found in the map for another,
\* which hangs under an entry that is not the root
C18_Witness ==
  /\ pc = "done"
  /\ \E i \in 1..Len(processed) :
       /\ processed[i].reused
       /\ processed[i].parent # 0
       /\ comps[ComponentOf(processed[i].node)].dummy
       /\ ComponentOf(processed[i].node) \in comps[ComponentOf(processed[i].parent)].dependencies

\* how deep entry n lies in the raw tree; the root is at depth 0
RECURSIVE Depth(_)
Depth(n) == IF n = 0 THEN 0 ELSE 1 + Depth(ParentOf(n))

\* C19: the component of a path is made from its shallowest occurrence: no
\* occurrence of the path that the walk handles lies above the occurrence
\* that makeComponent was called on.
C19_ShallowestFirst ==
  WalkOver =>
    \A c \in 1..Len(comps) :
      \A m \in Occurrences(comps[c].path) :
        Handled(m) => Depth(m) >= Depth(comps[c].node)

\* C20: the omission policy decides on every entry by the entry's own flags:
\* an entry that the policy excludes gets no edge and is not descended
\* into, also when its path is in the component map already.
C20_PolicyOnEveryEntry ==
  WalkOver =>
    \A n \in DOMAIN data :
      (n # 0 /\ WellFormed(n) /\ PolicySkip(data[n], omitDependencyTypes)) => ~Handled(n)

\* C20, amended: the policy is asked only for an entry whose path is not in
\* the component map.  Such an entry, when excluded, gets no edge, no
\* component and no descent, and when not excluded its path is materialized,
\* also after an earlier entry of the path was skipped; an entry whose path
\* is in the map is handled whatever its flags: makeComponent is not called,
\* the edge is recorded and its dependencies are walked.
C20_PolicyOnFirstSightOnly ==
  [][ pc = "gatherDependencies" =>
        LET f == stack[Len(stack)]
            n == data[f.node].dependencies[f.i]
            d == data[n]
            skip == PolicySkip(d, omitDependencyTypes)
        IN WellFormed(n) =>
             IF MapHas(allComponents, d.path)
             THEN /\ calls' = calls
                  /\ allComponents' = allComponents
                  /\ processed' = Append(processed, [node |-> n, parent |-> f.node, reused |-> TRUE])
                  /\ allComponents[MapIndex(allComponents, d.path)].v
                       \in comps'[f.comp].dependencies
             ELSE /\ Len(calls') = Len(calls) + 1
                  /\ calls'[Len(calls')].node = n
                  /\ skip => /\ allComponents' = allComponents
                             /\ comps' = comps
                             /\ processed' = processed
                  /\ ~skip => /\ MapHas(allComponents', d.path)
                              /\ comps'[allComponents'[MapIndex(allComponents', d.path)].v].node = n
                              /\ processed' = Append(processed, [node |-> n, parent |-> f.node,
                                                                 reused |-> FALSE])
    ]_vars

\* a path was skipped on its first entry, materialized from a later one, and
\* an excluded entry of it then got its edge
C20_Witness ==
  /\ pc = "done"
  /\ \E n, m, k \in DOMAIN data :
       /\ SkippedCall(n) /\ Handled(m) /\ Reused(k)
       /\ data[n].path = data[m].path /\ data[m].path = data[k].path
       /\ comps[ComponentOf(m)].node = m
       /\ PolicySkip(data[k], omitDependencyTypes)

\* the components reached from those of S by following dependency edges
RECURSIVE ReachedFrom(_)
ReachedFrom(S) ==
  LET more == S \cup UNION {comps[c].dependencies : c \in S}
  IN IF more = S THEN S ELSE ReachedFrom(more)

\* C25: from the first step of the walk to the end of the build, every
\* dependency edge of every component leads to a component of the component
\* map, and every component of the map is reached from the root component
\* by following edges; the assembly, which prefixes the reference tokens,
\* leaves the edges of every component leading to the components they led to.
C25_EdgesWithinMap ==
  /\ [](comps # <<>> =>
          /\ \A c \in 1..Len(comps) :
               comps[c].dependencies \subseteq Range(MapValues(allComponents))
          /\ Range(MapValues(allComponents)) \subseteq ReachedFrom({RootId}))
  /\ [][ pc = "gathered" =>
           /\ Len(comps') = Len(comps)
           /\ \A c \in 1..Len(comps) : comps'[c].dependencies = comps[c].dependencies ]_vars

\* an edge between two components that are not the root, to one whose
\* reference token was prefixed, and an edge to a component found in the map
C25_Witness ==
  /\ pc = "done"
  /\ \E h, c \in 1..Len(comps) :
       /\ h # RootId
       /\ c \in comps[h].dependencies
       /\ comps[c].bomRef # comps[c].origRef
  /\ \E i \in 1..Len(processed) : processed[i].reused

====
